---- MODULE Spec2Model ----
(***************************************************************************)
(* lws-minimal-ws-client-binance: the connection supervisor of main.c.     *)
(*                                                                         *)
(* One state machine: the static struct mco, the flag `interrupted`, the   *)
(* main loop of main() and the callbacks libwebsockets dispatches to       *)
(* (connect_client, sul_hz_cb, callback_minimal, sigint_handler).  The     *)
(* library itself (lws_service, lws_sul_schedule, lws_retry_sul_schedule,  *)
(* lws_client_connect_via_info) is not part of main.c; it is modelled from *)
(* the design document, one event per lws_service() call.                  *)
(***************************************************************************)
EXTENDS Integers, Sequences, FiniteSets, TLC

VARIABLES
    pc,             \* main(): "loop" (line 333), "done" (336-339), "crashed"
    n,              \* main(): last value returned by lws_service()
    interrupted,    \* static int interrupted
    conn,           \* transport state of the one client connection
    wsi,            \* mco.wsi: "null", "live" or "stale" (points at a freed wsi)
    retry_count,    \* mco.retry_count
    sul,            \* mco.sul: the connection retry timer
    sul_hz,         \* mco.sul_hz: the 1Hz summary timer
    e_lat_range,    \* mco.e_lat_range
    price_range,    \* mco.price_range
    e_lat_folded,   \* history: latencies folded since e_lat_range's last reset
    price_folded,   \* history: prices folded since price_range's last reset
    out,            \* what the step just taken did and logged
    exhausted,      \* "connection attempts exhausted" has been logged
    sigint,         \* SIGINT has been delivered
    text_in,        \* the text handed to pennies() or to the field extraction
    text_out,       \* <<>>, or <<what it returned>>
    sul_list        \* the scheduler's list: how often each sul is on it

vars == <<pc, n, interrupted, conn, wsi, retry_count, sul, sul_hz,
          e_lat_range, price_range, e_lat_folded, price_folded,
          out, exhausted, sigint, text_in, text_out, sul_list>>

-----------------------------------------------------------------------------
(* 64-bit quantities.  The fields of range_t are lws_usec_t, which main.c   *)
(* does not declare; the design document has them unsigned and 64 bits     *)
(* wide, so a latency that would be negative is a value near 2^64.  The    *)
(* model checker's integers are 32 bits wide, and range_reset's sentinel   *)
(* 999999999999 is not: a quantity is a pair <<hi, lo>> standing for       *)
(* hi * 10^6 + lo, with 0 <= lo < 10^6.  No sum of the values used here    *)
(* comes near 2^64, so no operation wraps.                                 *)

Limb == 1000 * 1000

Q(v) == <<v \div Limb, v % Limb>>

QLess(a, b) == a[1] < b[1] \/ (a[1] = b[1] /\ a[2] < b[2])

QAdd(a, b) == <<a[1] + b[1] + ((a[2] + b[2]) \div Limb), (a[2] + b[2]) % Limb>>

\* the quotient a / k of C's unsigned division, for 0 < k <= 1000;
\* a division by zero is the marker DivByZero
DivByZero == <<-1, -1>>

QDiv(a, k) ==
    IF k = 0 THEN DivByZero
    ELSE <<a[1] \div k, (((a[1] % k) * Limb) + a[2]) \div k>>

Min(a, b) == IF a < b THEN a ELSE b

-----------------------------------------------------------------------------
(* Configuration: main.c lines 49-60.                                      *)

backoff_ms == <<1000, 2000, 3000, 4000, 5000>>

retry_jittered ==
    [retry_ms_table          |-> backoff_ms,
     retry_ms_table_count    |-> Len(backoff_ms),
     conceal_count           |-> Len(backoff_ms),
     secs_since_valid_ping   |-> 400,
     secs_since_valid_hangup |-> 400,
     jitter_percent          |-> 20]

retry ==
    [retry_ms_table          |-> backoff_ms,
     retry_ms_table_count    |-> Len(backoff_ms),
     conceal_count           |-> Len(backoff_ms),
     secs_since_valid_ping   |-> 400,
     secs_since_valid_hangup |-> 400,
     jitter_percent          |-> 0]

LWS_US_PER_SEC == 1000000
LWS_US_PER_MS == 1000

-----------------------------------------------------------------------------
(* Timers (lws_sorted_usec_list_t).  A sul is on the scheduler's list or   *)
(* not; scheduling one that is already on the list moves it.               *)

SulIdle == [armed |-> FALSE, us |-> 0]

\* lws_sul_schedule(context, tid, sul, cb, us)
lws_sul_schedule(us) == [armed |-> TRUE, us |-> us]

\* the scheduler's list of pending events, as the number of entries for each
\* of the two suls of struct my_conn
NoSuls == [sul |-> 0, sul_hz |-> 0]

\* the list after the event of `node` has fired: the entry is taken off
lws_sul_fired(l, node) == [l EXCEPT ![node] = IF @ > 0 THEN @ - 1 ELSE 0]

\* scheduling that adds an entry and leaves an armed one where it is
lws_sul_insert_uncancelled(l, node) ==
    [l EXCEPT ![node] = @ + 1]

\* the list after lws_sul_schedule() of `node`: an entry already on the list
\* is cancelled first
lws_sul_insert(l, node) ==
    [l EXCEPT ![node] = 1]

-----------------------------------------------------------------------------
(* The backoff policy behind lws_retry_sul_schedule() and                  *)
(* lws_retry_sul_schedule_retry_wsi().                                     *)

\* the table delay for attempt_count, and whether the policy gives up
next_delay(policy, attempt_count) ==
    LET N   == policy.retry_ms_table_count
        idx == Min(attempt_count, N - 1)
    IN  [ms     |-> policy.retry_ms_table[idx + 1],
         giveup |-> policy.conceal_count <= N
                    /\ attempt_count >= policy.conceal_count]

\* the random spread added to a delay of ms: its two ends and its middle
Jitter(policy, ms) ==
    IF policy.jitter_percent > 0
    THEN {0, (ms * policy.jitter_percent) \div 200,
             (ms * policy.jitter_percent) \div 100}
    ELSE {0}

\* lws_retry_sul_schedule(context, tid, sul, policy, cb, ctry) returning ret,
\* called with the sul in state cur and the list l: on exhaustion nothing is
\* scheduled and the count is left alone, otherwise the sul is armed and the
\* count bumped
lws_retry_sul_schedule(policy, cur, l, ret) ==
    LET d == next_delay(policy, retry_count)
    IN  IF d.giveup
        THEN /\ ret = 1
             /\ sul' = cur
             /\ sul_list' = l
             /\ retry_count' = retry_count
        ELSE /\ ret = 0
             /\ \E j \in Jitter(policy, d.ms) :
                    sul' = lws_sul_schedule((d.ms + j) * LWS_US_PER_MS)
             /\ sul_list' = lws_sul_insert(l, "sul")
             /\ retry_count' = (retry_count + 1) % 65536

-----------------------------------------------------------------------------
(* range_t: main.c lines 18-24, 125-131.                                   *)

LOWEST_INIT == <<999999, 999999>>       \* 999999999999ull

\* mco is static: all zero until the first range_reset()
RangeZero == [sum |-> Q(0), lowest |-> Q(0), highest |-> Q(0), samples |-> 0]

\* range_reset without line 128: sum and highest are left as they are
range_reset_keeping_sum(r) ==
    [sum |-> r.sum, highest |-> r.highest, lowest |-> LOWEST_INIT, samples |-> 0]

\* range_reset without line 130: the count is left as it is
range_reset_keeping_samples(r) ==
    [sum |-> Q(0), highest |-> Q(0), lowest |-> LOWEST_INIT, samples |-> r.samples]

\* range_reset without line 129: lowest is zeroed with the rest
range_reset_lowest_zero(r) ==
    [sum |-> Q(0), highest |-> Q(0), lowest |-> Q(0), samples |-> 0]

range_reset(r) ==
    [sum |-> Q(0), highest |-> Q(0), lowest |-> LOWEST_INIT, samples |-> 0]

\* e_lat_fold with the comparison of line 236 turned round
e_lat_fold_highest_swapped(r, latency_us) ==
    [lowest  |-> IF QLess(latency_us, r.lowest) THEN latency_us ELSE r.lowest,
     highest |-> IF QLess(latency_us, r.highest) THEN latency_us ELSE r.highest,
     sum     |-> QAdd(r.sum, latency_us),
     samples |-> r.samples + 1]

\* lines 234-240
e_lat_fold(r, latency_us) ==
    [lowest  |-> IF QLess(latency_us, r.lowest) THEN latency_us ELSE r.lowest,
     highest |-> IF QLess(r.highest, latency_us) THEN latency_us ELSE r.highest,
     sum     |-> QAdd(r.sum, latency_us),
     samples |-> r.samples + 1]

\* lines 248-254
price_fold(r, price) ==
    [lowest  |-> IF QLess(price, r.lowest) THEN price ELSE r.lowest,
     highest |-> IF QLess(r.highest, price) THEN price ELSE r.highest,
     sum     |-> QAdd(r.sum, price),
     samples |-> r.samples + 1]

-----------------------------------------------------------------------------
(* Inputs.                                                                 *)

MaxSamples == 3     \* messages folded into one window

\* latency_us = now_us - E * LWS_US_PER_MS of a message; the last one is more
\* than LOWEST_INIT, as it is for a message whose "E" is far in the past or
\* (the subtraction wrapping) in the future
LatencyValues == {Q(100000), Q(200000), Q(150000), <<1000000, 0>>}

\* pennies(numbuf) of a message; numbuf holds up to 15 characters, so the
\* last one, of "100000000000.00", is possible
PriceValues == {Q(12345), <<10000000, 0>>}

\* a received message: whether it holds "depthUpdate", the latency its "E":
\* field gives (<<>> without the marker) and the price its "a":[[" field
\* gives (<<>> without the marker)
Messages ==
    [depthUpdate : BOOLEAN,
     E : {<<>>} \cup {<<v>> : v \in LatencyValues},
     a : {<<>>} \cup {<<v>> : v \in PriceValues}]

-----------------------------------------------------------------------------
(* What a step does and logs.                                              *)

\* ev: the event handled; marks: the markers of a received message;
\* err: the lwsl_err lines; price, elat: the summary lines of sul_hz_cb;
\* hz_replaced: the tick was scheduled while still armed
Out(ev) == [ev |-> ev, marks |-> <<>>, err |-> <<>>,
            price |-> <<>>, elat |-> <<>>, hz_replaced |-> FALSE]

Marks(msg) == <<msg.depthUpdate, msg.E # <<>>, msg.a # <<>> >>

-----------------------------------------------------------------------------
(* Text: pennies (main.c lines 176-187) and the extraction of a number     *)
(* from a message (lines 216-246).  A text is a sequence of characters,    *)
(* each a string of length one; a C string ends in NUL, which is not part  *)
(* of the sequence.                                                        *)

Digits == {"0", "1", "2", "3", "4", "5", "6", "7", "8", "9"}

isdigit(c) == c \in Digits

isspace(c) == c \in {" ", "\t", "\n", "\r", "\f"}

DigitVal(c) ==
    CASE c = "0" -> 0 [] c = "1" -> 1 [] c = "2" -> 2 [] c = "3" -> 3
      [] c = "4" -> 4 [] c = "5" -> 5 [] c = "6" -> 6 [] c = "7" -> 7
      [] c = "8" -> 8 [] c = "9" -> 9

NUL == "NUL"

\* s[i] of the C string: a character, the terminator, or what lies beyond it
At(s, i) ==
    IF i <= Len(s) THEN s[i]
    ELSE IF i = Len(s) + 1 THEN NUL
    ELSE "BEYOND"

\* atoll(s): white space, an optional sign, then digits
RECURSIVE atoll_digits(_, _, _)
atoll_digits(s, i, acc) ==
    IF isdigit(At(s, i))
    THEN atoll_digits(s, i + 1, (acc * 10) + DigitVal(At(s, i)))
    ELSE acc

RECURSIVE atoll_from(_, _)
atoll_from(s, i) ==
    IF isspace(At(s, i)) THEN atoll_from(s, i + 1)
    ELSE IF At(s, i) = "-" THEN 0 - atoll_digits(s, i + 1, 0)
    ELSE IF At(s, i) = "+" THEN atoll_digits(s, i + 1, 0)
    ELSE atoll_digits(s, i, 0)

atoll(s) == atoll_from(s, 1)

\* strchr(s, c): the index of the first c in s, 0 for NULL
strchr(s, c) ==
    IF \E i \in 1..Len(s) : s[i] = c
    THEN CHOOSE i \in 1..Len(s) : s[i] = c /\ \A j \in 1..(i - 1) : s[j] # c
    ELSE 0

\* pennies with the two digits of line 184 added as they are
pennies_unscaled(s) ==
    LET price == atoll(s) * 100
        p     == strchr(s, ".")
    IN  IF p # 0 /\ isdigit(At(s, p + 1)) /\ isdigit(At(s, p + 2))
        THEN price + DigitVal(At(s, p + 1)) + DigitVal(At(s, p + 2))
        ELSE price

\* lines 176-187; no text used here has a sign, so that the cast of line 179
\* changes nothing, and none is long enough for the product to wrap
pennies(s) ==
    LET price == atoll(s) * 100
        p     == strchr(s, ".")
    IN  IF p # 0 /\ isdigit(At(s, p + 1)) /\ isdigit(At(s, p + 2))
        THEN price + (10 * DigitVal(At(s, p + 1))) + DigitVal(At(s, p + 2))
        ELSE price

\* line 183 with both characters looked at whatever the first one is
pennies_reads_both(s) ==
    LET p == strchr(s, ".")
    IN  IF p = 0 THEN {} ELSE {p + 1, p + 2}

\* the indices of s that line 183 looks at after the point: && does not
\* evaluate isdigit(s[2]) when isdigit(s[1]) is false
pennies_reads(s) ==
    LET p == strchr(s, ".")
    IN  IF p = 0 THEN {}
        ELSE IF isdigit(At(s, p + 1)) THEN {p + 1, p + 2}
        ELSE {p + 1}

\* the markers of lines 225 and 243
MARK_E == <<"\"", "E", "\"", ":">>
MARK_A == <<"\"", "a", "\"", ":", "[", "[", "\"">>

\* name is in buf at index i
OccursAt(buf, name, i) ==
    /\ i + Len(name) - 1 <= Len(buf)
    /\ \A k \in 1..Len(name) : buf[i + k - 1] = name[k]

\* the characters that end a value
Delimiters == {",", "]", "\""}

\* the length of the run of buf from index i to the next delimiter or the end
RECURSIVE run_length(_, _)
run_length(buf, i) ==
    IF i > Len(buf) \/ buf[i] \in Delimiters THEN 0
    ELSE 1 + run_length(buf, i + 1)

\* lws_json_simple_find(buf, len, name, &alen): p = 0 for NULL, else the
\* index after the first name in buf, with alen the length of the run there
lws_json_simple_find(buf, name) ==
    IF \E i \in 1..Len(buf) : OccursAt(buf, name, i)
    THEN LET i == CHOOSE i \in 1..Len(buf) :
                    /\ OccursAt(buf, name, i)
                    /\ \A j \in 1..(i - 1) : ~OccursAt(buf, name, j)
             p == i + Len(name)
         IN  [p |-> p, alen |-> run_length(buf, p)]
    ELSE [p |-> 0, alen |-> 0]

\* lws_strnncpy(dest, src, size, destsize): the string left in dest, of the
\* first size characters at src cut to destsize - 1
lws_strnncpy(buf, p, size, destsize) ==
    SubSeq(buf, p, p + Min(size, destsize - 1) - 1)

NUMBUF_SIZE == 16       \* char numbuf[16]

\* number_text with the whole run copied, whatever numbuf holds
number_text_uncut(buf, name) ==
    LET f == lws_json_simple_find(buf, name)
    IN  IF f.p = 0 THEN <<>>
        ELSE <<SubSeq(buf, f.p, f.p + f.alen - 1)>>

\* lines 225-230 and 242-245: <<>> without the marker, else <<numbuf>>
number_text(buf, name) ==
    LET f == lws_json_simple_find(buf, name)
    IN  IF f.p = 0 THEN <<>>
        ELSE <<lws_strnncpy(buf, f.p, f.alen, NUMBUF_SIZE)>>

\* no text is being handled
NoText == [fn |-> "none"]

MaxTextLen == 5
MaxBufLen == 6

\* all texts over the characters of A of length at most k
RECURSIVE TextsUpTo(_, _)
TextsUpTo(A, k) ==
    IF k = 0 THEN {<<>>}
    ELSE LET T == TextsUpTo(A, k - 1)
         IN  T \cup {Append(t, c) : t \in {u \in T : Len(u) = k - 1}, c \in A}

\* k times the character c
Rep(c, k) == [i \in 1..k |-> c]

\* the texts handed to pennies: digits, the point and a letter in every
\* arrangement of up to k characters, and the texts "123.45", "100", "12.3",
\* "12."
PenniesTexts(k) ==
    TextsUpTo({"0", "1", "2", ".", "x"}, k)
        \cup {<<"1", "2", "3", ".", "4", "5">>, <<"1", "0", "0">>,
              <<"1", "2", ".", "3">>, <<"1", "2", ".">>}

\* the buffers searched for MARK_E: the characters of the marker, a digit
\* and the delimiters in every arrangement of up to len characters; the marker
\* followed by a value of up to NUMBUF_SIZE + 1 characters, ended by a
\* delimiter or by the end of the buffer
EBuffers(len) ==
    TextsUpTo({"\"", "E", ":", "1", ",", "]"}, len)
        \cup {pre \o MARK_E \o Rep("1", k) \o post :
                pre \in {<<>>, <<"{">>, <<"\"", "E">>},
                k \in 0..(NUMBUF_SIZE + 1),
                post \in {<<>>, <<",">>, <<"]", "7">>, <<"\"", "7">>,
                          <<"}">> \o MARK_E \o <<"7", ",">>}}

\* the buffers searched for MARK_A
ABuffers ==
    {pre \o MARK_A \o val \o post :
        pre \in {<<>>, MARK_E \o <<"1", ",">>},
        val \in {<<"1", "2", "3", ".", "4", "5">>, <<"1", "0", "0">>, <<>>},
        post \in {<<",">>, <<"\"", ",", "\"", "5", "\"", "]">>, <<>>}}
        \cup {<<>>, MARK_E \o <<"1", ",">>, SubSeq(MARK_A, 1, Len(MARK_A) - 1)}

\* the calls on texts of up to tl and buffers of up to bl characters
TextCalls(tl, bl) ==
    {[fn |-> "pennies", s |-> s] : s \in PenniesTexts(tl)}
        \cup {[fn |-> "number_text", buf |-> b, name |-> MARK_E] :
                b \in EBuffers(bl)}
        \cup {[fn |-> "number_text", buf |-> b, name |-> MARK_A] : b \in ABuffers}

-----------------------------------------------------------------------------
(* connect_client: main.c lines 90-123.  Runs when mco.sul fires, which    *)
(* takes the sul off the list.                                             *)

\* lws_client_connect_via_info(&i): a wsi (stored through i.pwsi), or NULL
ConnectResults == {"wsi", "NULL"}

\* connect_client scheduling the next attempt after a connect that succeeded
connect_client_rescheduling ==
    \E res \in ConnectResults :
        /\ conn' = IF res # "NULL" THEN "Connecting" ELSE conn
        /\ wsi' = IF res # "NULL" THEN "live" ELSE wsi
        /\ sul' = lws_sul_schedule(backoff_ms[1] * LWS_US_PER_MS)
        /\ sul_list' = lws_sul_insert(lws_sul_fired(sul_list, "sul"), "sul")
        /\ out' = Out(IF res # "NULL" THEN "connect" ELSE "connect_failed")
        /\ UNCHANGED <<retry_count, interrupted, exhausted>>

connect_client ==
    \E res \in ConnectResults :
        IF res # "NULL"
        THEN /\ conn' = "Connecting"
             /\ wsi' = "live"
             /\ sul' = SulIdle
             /\ sul_list' = lws_sul_fired(sul_list, "sul")
             /\ out' = Out("connect")
             /\ UNCHANGED <<retry_count, interrupted, exhausted>>
        ELSE /\ \E ret \in {0, 1} :
                    /\ lws_retry_sul_schedule(retry, SulIdle,
                                              lws_sul_fired(sul_list, "sul"), ret)
                    /\ IF ret # 0
                       THEN /\ out' = [Out("connect_failed") EXCEPT
                                !.err = <<"connection attempts exhausted">>]
                            /\ exhausted' = TRUE
                            /\ interrupted' = 1
                       ELSE /\ out' = Out("connect_failed")
                            /\ UNCHANGED <<exhausted, interrupted>>
             /\ UNCHANGED <<conn, wsi>>

-----------------------------------------------------------------------------
(* sul_hz_cb: main.c lines 143-174.                                        *)

\* price_line without the test of line 155
price_line_unguarded(r) ==
    <<[lowest  |-> r.lowest,
       highest |-> r.highest,
       avg     |-> QDiv(r.sum, r.samples),
       samples |-> r.samples]>>

\* lines 155-162: the price summary, if any
price_line(r) ==
    IF r.samples # 0
    THEN <<[lowest  |-> r.lowest,
            highest |-> r.highest,
            avg     |-> QDiv(r.sum, r.samples),
            samples |-> r.samples]>>
    ELSE <<>>

\* lines 163-170: the latency summary, if any, in ms
elat_line(r) ==
    IF r.samples # 0
    THEN <<[lowest  |-> QDiv(r.lowest, 1000),
            highest |-> QDiv(r.highest, 1000),
            avg     |-> QDiv(QDiv(r.sum, r.samples), 1000),
            samples |-> r.samples]>>
    ELSE <<>>

\* sul_hz_cb without lines 152-153
hz_rearm_missing == SulIdle

\* lines 152-153: the next tick, scheduled before anything else
hz_rearm == lws_sul_schedule(LWS_US_PER_SEC)

\* lws_get_context(mco->wsi) reads the wsi.  After the connection has closed
\* mco->wsi points at a wsi that is gone: the read may still see the freed
\* wsi's context, so that the callback runs as usual, or fault
sul_hz_cb ==
    \/ /\ sul_hz' = hz_rearm
       /\ sul_list' = lws_sul_insert(lws_sul_fired(sul_list, "sul_hz"), "sul_hz")
       /\ out' = [Out("tick") EXCEPT !.price = price_line(price_range),
                                    !.elat  = elat_line(e_lat_range)]
       /\ e_lat_range' = range_reset(e_lat_range)
       /\ price_range' = range_reset(price_range)
       /\ e_lat_folded' = <<>>
       /\ price_folded' = <<>>
       /\ pc' = pc
    \/ /\ wsi # "live"
       /\ pc' = "crashed"
       /\ sul_hz' = SulIdle
       /\ sul_list' = lws_sul_fired(sul_list, "sul_hz")
       /\ out' = Out("tick_fault")
       /\ UNCHANGED <<e_lat_range, price_range, e_lat_folded, price_folded>>

-----------------------------------------------------------------------------
(* callback_minimal: main.c lines 189-294.                                 *)

\* do_retry with the result of the scheduling call ignored
do_retry_ignoring(o) ==
    \E ret \in {0, 1} :
        /\ lws_retry_sul_schedule(retry, sul, sul_list, ret)
        /\ out' = o
        /\ UNCHANGED <<exhausted, interrupted>>

\* do_retry without the braces of lines 288-291: the flag is set either way
do_retry_unbraced(o) ==
    \E ret \in {0, 1} :
        /\ lws_retry_sul_schedule(retry, sul, sul_list, ret)
        /\ IF ret # 0
           THEN /\ out' = [o EXCEPT !.err = <<"connection attempts exhausted">>]
                /\ exhausted' = TRUE
           ELSE /\ out' = o
                /\ UNCHANGED exhausted
        /\ interrupted' = 1

\* do_retry without the call of lines 284-286: nothing is scheduled
do_retry_unscheduled(o) ==
    /\ out' = o
    /\ UNCHANGED <<sul, sul_list, retry_count, exhausted, interrupted>>

\* lines 276-293
do_retry(o) ==
    \E ret \in {0, 1} :
        \* lws_retry_sul_schedule_retry_wsi(wsi, &mco->sul, connect_client,
        \* &mco->retry_count): the wsi's policy is i.retry_and_idle_policy
        /\ lws_retry_sul_schedule(retry, sul, sul_list, ret)
        /\ IF ret # 0
           THEN /\ out' = [o EXCEPT !.err = <<"connection attempts exhausted">>]
                /\ exhausted' = TRUE
                /\ interrupted' = 1
           ELSE /\ out' = o
                /\ UNCHANGED <<exhausted, interrupted>>

\* receive without the test of lines 222-223
receive_any_category(msg) ==
    IF msg.E = <<>>
    THEN /\ out' = [Out("RECEIVE") EXCEPT !.marks = Marks(msg),
                                          !.err = <<"no E JSON">>]
         /\ UNCHANGED <<e_lat_range, price_range, e_lat_folded, price_folded>>
    ELSE /\ out' = [Out("RECEIVE") EXCEPT !.marks = Marks(msg)]
         /\ e_lat_range' = e_lat_fold(e_lat_range, msg.E[1])
         /\ e_lat_folded' = Append(e_lat_folded, msg.E[1])
         /\ IF msg.a # <<>>
            THEN /\ price_range' = price_fold(price_range, msg.a[1])
                 /\ price_folded' = Append(price_folded, msg.a[1])
            ELSE UNCHANGED <<price_range, price_folded>>

\* receive with the price looked for before "E": and whether or not it is there
receive_price_first(msg) ==
    IF ~msg.depthUpdate
    THEN /\ out' = [Out("RECEIVE") EXCEPT !.marks = Marks(msg)]
         /\ UNCHANGED <<e_lat_range, price_range, e_lat_folded, price_folded>>
    ELSE /\ IF msg.a # <<>>
            THEN /\ price_range' = price_fold(price_range, msg.a[1])
                 /\ price_folded' = Append(price_folded, msg.a[1])
            ELSE UNCHANGED <<price_range, price_folded>>
         /\ IF msg.E # <<>>
            THEN /\ out' = [Out("RECEIVE") EXCEPT !.marks = Marks(msg)]
                 /\ e_lat_range' = e_lat_fold(e_lat_range, msg.E[1])
                 /\ e_lat_folded' = Append(e_lat_folded, msg.E[1])
            ELSE /\ out' = [Out("RECEIVE") EXCEPT !.marks = Marks(msg),
                                                  !.err = <<"no E JSON">>]
                 /\ UNCHANGED <<e_lat_range, e_lat_folded>>

\* lines 207-256
receive(msg) ==
    IF ~msg.depthUpdate
    THEN /\ out' = [Out("RECEIVE") EXCEPT !.marks = Marks(msg)]
         /\ UNCHANGED <<e_lat_range, price_range, e_lat_folded, price_folded>>
    ELSE IF msg.E = <<>>
    THEN /\ out' = [Out("RECEIVE") EXCEPT !.marks = Marks(msg),
                                          !.err = <<"no E JSON">>]
         /\ UNCHANGED <<e_lat_range, price_range, e_lat_folded, price_folded>>
    ELSE /\ out' = [Out("RECEIVE") EXCEPT !.marks = Marks(msg)]
         /\ e_lat_range' = e_lat_fold(e_lat_range, msg.E[1])
         /\ e_lat_folded' = Append(e_lat_folded, msg.E[1])
         /\ IF msg.a # <<>>
            THEN /\ price_range' = price_fold(price_range, msg.a[1])
                 /\ price_folded' = Append(price_folded, msg.a[1])
            ELSE UNCHANGED <<price_range, price_folded>>

\* callback_minimal without lines 263-264: ESTABLISHED leaves the ranges
callback_minimal_unreset(reason, msg) ==
    CASE reason = "CONNECTION_ERROR" ->
            /\ do_retry(Out(reason))
            /\ UNCHANGED <<sul_hz, e_lat_range, price_range,
                           e_lat_folded, price_folded>>
      [] reason = "RECEIVE" ->
            /\ receive(msg)
            /\ UNCHANGED <<sul, sul_hz, sul_list, wsi, retry_count,
                           interrupted, exhausted>>
      [] reason = "ESTABLISHED" ->
            /\ sul_hz' = lws_sul_schedule(LWS_US_PER_SEC)
            /\ sul_list' = lws_sul_insert(sul_list, "sul_hz")
            /\ wsi' = "live"
            /\ UNCHANGED <<e_lat_range, price_range>>
            /\ e_lat_folded' = <<>>
            /\ price_folded' = <<>>
            /\ out' = [Out(reason) EXCEPT !.hz_replaced = sul_list.sul_hz > 0]
            /\ UNCHANGED <<sul, retry_count, interrupted, exhausted>>
      [] reason = "CLOSED" ->
            /\ do_retry(Out(reason))
            /\ UNCHANGED <<sul_hz, e_lat_range, price_range,
                           e_lat_folded, price_folded>>

\* the callback for `reason`; msg is the payload of a RECEIVE.  The wsi of a
\* CONNECTION_ERROR or CLOSED is destroyed by the caller on return
callback_minimal(reason, msg) ==
    CASE reason = "CONNECTION_ERROR" ->
            /\ do_retry(Out(reason))
            /\ UNCHANGED <<sul_hz, e_lat_range, price_range,
                           e_lat_folded, price_folded>>
      [] reason = "RECEIVE" ->
            /\ receive(msg)
            /\ UNCHANGED <<sul, sul_hz, sul_list, wsi, retry_count,
                           interrupted, exhausted>>
      [] reason = "ESTABLISHED" ->
            /\ sul_hz' = lws_sul_schedule(LWS_US_PER_SEC)
            /\ sul_list' = lws_sul_insert(sul_list, "sul_hz")
            /\ wsi' = "live"
            /\ e_lat_range' = range_reset(e_lat_range)
            /\ price_range' = range_reset(price_range)
            /\ e_lat_folded' = <<>>
            /\ price_folded' = <<>>
            /\ out' = [Out(reason) EXCEPT !.hz_replaced = sul_list.sul_hz > 0]
            /\ UNCHANGED <<sul, retry_count, interrupted, exhausted>>
      [] reason = "CLOSED" ->
            /\ do_retry(Out(reason))
            /\ UNCHANGED <<sul_hz, e_lat_range, price_range,
                           e_lat_folded, price_folded>>

-----------------------------------------------------------------------------
(* main: lines 307-340, and sigint_handler: lines 301-305.                 *)

Init ==
    /\ pc = "loop"
    /\ n = 0
    /\ interrupted = 0
    /\ conn = "Idle"
    /\ wsi = "null"
    /\ retry_count = 0
    /\ sul = lws_sul_schedule(1)            \* line 331
    /\ sul_hz = SulIdle
    /\ e_lat_range = RangeZero
    /\ price_range = RangeZero
    /\ e_lat_folded = <<>>
    /\ price_folded = <<>>
    /\ out = Out("init")
    /\ exhausted = FALSE
    /\ sigint = FALSE
    /\ text_in = NoText
    /\ text_out = <<>>
    /\ sul_list = lws_sul_insert(NoSuls, "sul")

\* line 333 without the test of the flag
LoopCond_unflagged == n >= 0

\* line 333: while (n >= 0 && !interrupted)
LoopCond == n >= 0 /\ interrupted = 0

\* one lws_service() call handles one event
Service == pc = "loop" /\ LoopCond

\* mco.sul fires
SulConnect ==
    /\ Service
    /\ sul.armed
    /\ connect_client
    /\ UNCHANGED <<pc, n, sul_hz, e_lat_range, price_range,
                   e_lat_folded, price_folded, sigint, text_in, text_out>>

\* mco.sul_hz fires
SulHz ==
    /\ Service
    /\ sul_hz.armed
    /\ sul_hz_cb
    /\ UNCHANGED <<n, interrupted, conn, wsi, retry_count, sul,
                   exhausted, sigint, text_in, text_out>>

\* the connection attempt fails
NetConnectionError ==
    /\ Service
    /\ conn = "Connecting"
    /\ callback_minimal("CONNECTION_ERROR", <<>>)
    /\ conn' = "Idle"
    /\ wsi' = "stale"
    /\ UNCHANGED <<pc, n, sigint, text_in, text_out>>

\* the connection attempt succeeds
NetEstablished ==
    /\ Service
    /\ conn = "Connecting"
    /\ callback_minimal("ESTABLISHED", <<>>)
    /\ conn' = "Established"
    /\ UNCHANGED <<pc, n, sigint, text_in, text_out>>

\* a message arrives
NetReceive ==
    /\ Service
    /\ conn = "Established"
    /\ \E msg \in Messages :
          /\ (msg.depthUpdate /\ msg.E # <<>>) => e_lat_range.samples < MaxSamples
          /\ callback_minimal("RECEIVE", msg)
    /\ UNCHANGED <<pc, n, conn, sigint, text_in, text_out>>

\* the established connection closes
NetClosed ==
    /\ Service
    /\ conn = "Established"
    /\ callback_minimal("CLOSED", <<>>)
    /\ conn' = "Idle"
    /\ wsi' = "stale"
    /\ UNCHANGED <<pc, n, sigint, text_in, text_out>>

\* lws_service() returns a negative value
ServiceError ==
    /\ Service
    /\ n' = -1
    /\ out' = Out("service_error")
    /\ UNCHANGED <<pc, interrupted, conn, wsi, retry_count, sul, sul_hz,
                   e_lat_range, price_range, e_lat_folded, price_folded,
                   exhausted, sigint, text_in, text_out, sul_list>>

sigint_handler ==
    /\ pc = "loop"
    /\ ~sigint
    /\ interrupted' = 1
    /\ sigint' = TRUE
    /\ out' = Out("SIGINT")
    /\ UNCHANGED <<pc, n, conn, wsi, retry_count, sul, sul_hz,
                   e_lat_range, price_range, e_lat_folded, price_folded,
                   exhausted, text_in, text_out, sul_list>>

\* lines 336-339: the loop has ended
MainExit ==
    /\ pc = "loop"
    /\ ~LoopCond
    /\ pc' = "done"
    /\ out' = Out("Completed")
    /\ UNCHANGED <<n, interrupted, conn, wsi, retry_count, sul, sul_hz,
                   e_lat_range, price_range, e_lat_folded, price_folded,
                   exhausted, sigint, text_in, text_out, sul_list>>

Next ==
    \/ SulConnect
    \/ SulHz
    \/ NetConnectionError
    \/ NetEstablished
    \/ NetReceive
    \/ NetClosed
    \/ ServiceError
    \/ sigint_handler
    \/ MainExit

Spec == Init /\ [][Next]_vars

\* the scheduler fires an armed connect event in the end
FairSpec == Spec /\ WF_vars(SulConnect)

-----------------------------------------------------------------------------
(* The text functions on their own: a text is chosen, the function is      *)
(* applied to it once.                                                     *)

\* pennies(text_in.s) is called
CallPennies ==
    /\ text_in.fn = "pennies"
    /\ text_out = <<>>
    /\ text_out' = <<[value |-> pennies(text_in.s),
                      reads |-> pennies_reads(text_in.s)]>>
    /\ UNCHANGED <<pc, n, interrupted, conn, wsi, retry_count, sul, sul_hz,
                   e_lat_range, price_range, e_lat_folded, price_folded,
                   out, exhausted, sigint, text_in, sul_list>>

\* the number after text_in.name is taken from text_in.buf
CallNumberText ==
    /\ text_in.fn = "number_text"
    /\ text_out = <<>>
    /\ text_out' = <<number_text(text_in.buf, text_in.name)>>
    /\ UNCHANGED <<pc, n, interrupted, conn, wsi, retry_count, sul, sul_hz,
                   e_lat_range, price_range, e_lat_folded, price_folded,
                   out, exhausted, sigint, text_in, sul_list>>

InitText ==
    /\ pc = "loop"
    /\ n = 0
    /\ interrupted = 0
    /\ conn = "Idle"
    /\ wsi = "null"
    /\ retry_count = 0
    /\ sul = lws_sul_schedule(1)
    /\ sul_hz = SulIdle
    /\ e_lat_range = RangeZero
    /\ price_range = RangeZero
    /\ e_lat_folded = <<>>
    /\ price_folded = <<>>
    /\ out = Out("init")
    /\ exhausted = FALSE
    /\ sigint = FALSE
    /\ text_in \in TextCalls(MaxTextLen, MaxBufLen)
    /\ text_out = <<>>
    /\ sul_list = lws_sul_insert(NoSuls, "sul")

NextText ==
    \/ CallPennies
    \/ CallNumberText

SpecText == InitText /\ [][NextText]_vars

-----------------------------------------------------------------------------
(* Properties.                                                             *)

N == retry.retry_ms_table_count

\* the events that are a connection failure
FailureEvents == {"connect_failed", "CONNECTION_ERROR", "CLOSED"}

\* the step taken handled a connection failure
Failure == out'.ev \in FailureEvents /\ vars' # vars

\* the step taken signalled exhaustion
Signalled == out'.err = <<"connection attempts exhausted">> /\ interrupted' = 1

\* C1: a connection failure signals exhaustion (logs it and sets the stop
\* flag) exactly when retry_count >= conceal_count at the time of the
\* failure, and otherwise arms the retry and counts the failure, so that from
\* retry_count = 0 five failures in a row arm a retry and the sixth signals
\* exhaustion; a policy whose conceal_count exceeds its table never gives up.
C1_ExhaustionIffConcealed ==
    /\ \A cc \in 0..(N + 3), a \in 0..(N + 4) :
          next_delay([retry EXCEPT !.conceal_count = cc], a).giveup
              <=> (cc <= N /\ a >= cc)
    /\ [][ Failure =>
            /\ Signalled <=> retry_count >= retry.conceal_count
            /\ Signalled <=> retry_count >= 5
            /\ Signalled => ~sul'.armed /\ retry_count' = retry_count
            /\ ~Signalled => /\ sul'.armed
                             /\ retry_count' = retry_count + 1
                             /\ interrupted' = 0
                             /\ exhausted' = exhausted
         ]_vars

\* the sixth failure, a closure, has signalled exhaustion
C1_Witness ==
    /\ out.ev = "CLOSED"
    /\ out.err = <<"connection attempts exhausted">>
    /\ retry_count = 5
    /\ interrupted = 1
    /\ ~sigint

\* C2: an establishment leaves retry_count at 0, so that the count is the
\* length of the current streak of failures.
C2_ResetOnEstablished == out.ev = "ESTABLISHED" => retry_count = 0

\* C3: the retry armed by a failure fires after exactly the table entry
\* min(retry_count, N-1): the k-th failure in a row arms k * 1000 ms (in us),
\* and a count of N or more selects the last entry.
C3_DelayIsTableEntry ==
    /\ \A a \in 0..(N + 4) :
          next_delay(retry, a).ms
              = <<1000, 2000, 3000, 4000, 5000>>[Min(a, 4) + 1]
    /\ [][ (Failure /\ ~Signalled) =>
            /\ sul' = lws_sul_schedule(
                        backoff_ms[Min(retry_count, N - 1) + 1] * 1000)
            /\ retry_count < 5 => sul'.us = (retry_count + 1) * 1000 * 1000
         ]_vars

\* the fifth failure in a row has armed a retry after 5000 ms
C3_Witness ==
    /\ out.ev \in FailureEvents
    /\ retry_count = 5
    /\ sul = [armed |-> TRUE, us |-> 5000000]
    /\ ~exhausted

\* the least and the greatest of two quantities, and of a sequence of them
QMin(a, b) == IF QLess(b, a) THEN b ELSE a
QMax(a, b) == IF QLess(a, b) THEN b ELSE a

RECURSIVE MinSeq(_)
MinSeq(s) == IF Len(s) = 1 THEN s[1] ELSE QMin(s[1], MinSeq(Tail(s)))

RECURSIVE MaxSeq(_)
MaxSeq(s) == IF Len(s) = 1 THEN s[1] ELSE QMax(s[1], MaxSeq(Tail(s)))

RECURSIVE SumSeq(_)
SumSeq(s) == IF s = <<>> THEN Q(0) ELSE QAdd(s[1], SumSeq(Tail(s)))

\* r holds exactly the least, the greatest, the sum and the number of s
HoldsExactly(r, s) ==
    s # <<>> =>
        /\ r.lowest = MinSeq(s)
        /\ r.highest = MaxSeq(s)
        /\ r.sum = SumSeq(s)
        /\ r.samples = Len(s)
        /\ \A i \in 1..Len(s) : ~QLess(s[i], r.lowest) /\ ~QLess(r.highest, s[i])

HoldsClamped(r, s) ==
    s # <<>> =>
        /\ r.lowest = QMin(<<999999, 999999>>, MinSeq(s))
        /\ r.highest = QMax(<<0, 0>>, MaxSeq(s))
        /\ r.sum = SumSeq(s)
        /\ r.samples = Len(s)
        /\ \A i \in 1..Len(s) :
              ~QLess(<<999999, 999999>>, s[i]) =>
                  ~QLess(s[i], r.lowest) /\ ~QLess(r.highest, s[i])

Empty == [lowest |-> <<999999, 999999>>, highest |-> <<0, 0>>,
          sum |-> <<0, 0>>, samples |-> 0]

\* the step taken is a tick on the established connection
Tick == out'.ev = "tick" /\ conn = "Established" /\ vars' # vars

\* the summary of r as it is
Exact(r) ==
    <<[lowest |-> r.lowest, highest |-> r.highest,
       avg |-> QDiv(r.sum, r.samples), samples |-> r.samples]>>

\* the summary of r with each of lowest, highest and mean divided by 1000
InMs(r) ==
    <<[lowest |-> QDiv(r.lowest, 1000), highest |-> QDiv(r.highest, 1000),
       avg |-> QDiv(QDiv(r.sum, r.samples), 1000), samples |-> r.samples]>>

\* C5 as claimed: a tick emits, for each aggregator with samples, exactly
\* its lowest, highest, sum/samples and samples, and leaves both empty.
C5_TickEmitsExact ==
    [][ Tick =>
          /\ price_range.samples > 0 => out'.price = Exact(price_range)
          /\ e_lat_range.samples > 0 => out'.elat = Exact(e_lat_range)
          /\ price_range' = Empty
          /\ e_lat_range' = Empty
      ]_vars

\* C5 as amended: the price summary is exactly lowest, highest, sum/samples
\* and samples; the latency summary is lowest/1000, highest/1000,
\* (sum/samples)/1000 (integer divisions: milliseconds) and samples, so that
\* latencies of 100000, 200000 and 150000 us are reported as 100, 200, 150
\* and 3 samples; after the tick both aggregators are empty.
C5_TickEmitsMs ==
    [][ Tick =>
          /\ price_range.samples > 0 => out'.price = Exact(price_range)
          /\ e_lat_range.samples > 0 => out'.elat = InMs(e_lat_range)
          /\ e_lat_folded = <<Q(100000), Q(200000), Q(150000)>> =>
                out'.elat = <<[lowest |-> Q(100), highest |-> Q(200),
                               avg |-> Q(150), samples |-> 3]>>
          /\ price_range' = Empty
          /\ e_lat_range' = Empty
          /\ e_lat_folded' = <<>>
          /\ price_folded' = <<>>
      ]_vars

\* the tick after latencies with least 100000, greatest 200000 and mean
\* 150000, and after a price
C5_Witness ==
    /\ out.ev = "tick"
    /\ conn = "Established"
    /\ out.elat = <<[lowest |-> Q(100), highest |-> Q(200),
                     avg |-> Q(150), samples |-> 3]>>
    /\ out.price # <<>>
    /\ e_lat_range = Empty
    /\ price_range = Empty

\* the step taken received a message without "depthUpdate" or without "E":
Skipped ==
    /\ out'.ev = "RECEIVE"
    /\ ~(out'.marks[1] /\ out'.marks[2])
    /\ vars' # vars

\* C6: a message without the category marker or without the elapsed-time
\* marker changes neither aggregator, the connection, the retry count, the
\* timers nor the stop flag, and the loop goes on to the next message.
C6_SkippedMessage ==
    [][ Skipped =>
          /\ UNCHANGED <<e_lat_range, price_range, e_lat_folded, price_folded>>
          /\ UNCHANGED <<conn, wsi, retry_count, sul, sul_hz>>
          /\ UNCHANGED <<interrupted, exhausted, n, pc>>
          /\ conn' = "Established" /\ pc' = "loop" /\ LoopCond'
      ]_vars

\* a message with "depthUpdate" and a price but no "E": was skipped with two
\* samples in hand
C6_Witness ==
    /\ out.ev = "RECEIVE"
    /\ out.marks = <<TRUE, FALSE, TRUE>>
    /\ e_lat_range.samples = 2
    /\ price_range.samples = 1
    /\ conn = "Established"

\* the step taken is a tick that ran to its end
AnyTick == out'.ev = "tick" /\ vars' # vars

\* C7: a tick emits a metric's summary exactly when that metric has samples,
\* each metric on its own, and no mean is a division by zero.
C7_SummaryIffSamples ==
    [][ AnyTick =>
          /\ (out'.price # <<>>) <=> (price_range.samples > 0)
          /\ (out'.elat # <<>>) <=> (e_lat_range.samples > 0)
          /\ \A l \in {out'.price, out'.elat} :
                l # <<>> => l[1].avg # DivByZero /\ l[1].samples > 0
      ]_vars

\* a tick that emitted the latency summary and no price summary
C7_Witness ==
    /\ out.ev = "tick"
    /\ out.elat # <<>>
    /\ out.price = <<>>

C9_FailedIsTerminal ==
    /\ [](exhausted => interrupted = 1 /\ ~sul.armed)
    /\ [][ exhausted =>
             /\ exhausted' /\ interrupted' = 1
             /\ out'.ev \in {"SIGINT", "Completed"}
             /\ UNCHANGED <<conn, wsi, retry_count, sul, sul_hz, e_lat_range,
                            price_range, e_lat_folded, price_folded, n>>
         ]_vars

\* main has ended after exhaustion, with the tick still armed
C9_Witness ==
    /\ exhausted
    /\ pc = "done"
    /\ ~sigint
    /\ sul_hz.armed

\* C10 as claimed: without SIGINT the loop ends only on exhaustion.
C10_LoopEndsOnlyExhausted ==
    (pc = "done" /\ ~sigint) => exhausted

\* C10 as amended: without SIGINT the loop ends only when exhaustion has
\* been signalled or lws_service() has returned a negative value.
C10_LoopEndsExhaustedOrServiceError ==
    (pc = "done" /\ ~sigint) => (exhausted \/ n < 0)

\* main has ended on exhaustion alone
C10_Witness ==
    /\ pc = "done"
    /\ ~sigint
    /\ exhausted
    /\ n >= 0


-----------------------------------------------------------------------------
(* The text functions.                                                     *)

\* the call of pennies has returned
PenniesDone == text_in.fn = "pennies" /\ text_out # <<>>

\* the number of digits that s begins with
LeadingRun(s) ==
    CHOOSE k \in 0..Len(s) :
        /\ \A i \in 1..k : s[i] \in Digits
        /\ k < Len(s) => s[k + 1] \notin Digits

\* the number that a text of digits writes
RECURSIVE Decimal(_)
Decimal(d) ==
    IF d = <<>> THEN 0
    ELSE (10 * Decimal(SubSeq(d, 1, Len(d) - 1))) + DigitVal(d[Len(d)])

\* the indices of the points of s
Points(s) == {i \in 1..Len(s) : s[i] = "."}

\* the two-digit value after the first point of s, 0 without one
Fraction(s) ==
    IF Points(s) = {} THEN 0
    ELSE LET p == CHOOSE i \in Points(s) : \A j \in Points(s) : i <= j
         IN  IF p + 2 <= Len(s) /\ s[p + 1] \in Digits /\ s[p + 2] \in Digits
             THEN Decimal(SubSeq(s, p + 1, p + 2))
             ELSE 0

NumberTextDone == text_in.fn = "number_text" /\ text_out # <<>>

\* the indices of buf at which name begins
Occurrences(buf, name) ==
    {i \in 1..Len(buf) :
        /\ i + Len(name) - 1 <= Len(buf)
        /\ SubSeq(buf, i, i + Len(name) - 1) = name}

\* the characters of buf from index p up to, not including, the next comma,
\* closing bracket or quote, or up to the end of buf
RunFrom(buf, p) ==
    CHOOSE r \in {SubSeq(buf, p, e) : e \in (p - 1)..Len(buf)} :
        /\ \A k \in 1..Len(r) : r[k] \notin {",", "]", "\""}
        /\ p + Len(r) <= Len(buf) => buf[p + Len(r)] \in {",", "]", "\""}

\* C12: the extraction finds nothing exactly when the marker does not occur
\* in the buffer; otherwise the text handed to the conversion is the run of
\* characters after the first occurrence of the marker up to the next comma,
\* closing bracket or quote, cut to 15 characters for the 16-byte number
\* buffer; the marker followed by "123.45" and a comma gives "123.45".
C12_NumberText ==
    /\ NUMBUF_SIZE = 16
    /\ NumberTextDone =>
        LET buf  == text_in.buf
            name == text_in.name
            occ  == Occurrences(buf, name)
            r    == text_out[1]
        IN  /\ r = <<>> <=> occ = {}
            /\ occ # {} =>
                 LET first == CHOOSE i \in occ : \A j \in occ : i <= j
                     run   == RunFrom(buf, first + Len(name))
                 IN  /\ Len(run) <= 15 => r = <<run>>
                     /\ Len(run) > 15 => r = <<SubSeq(run, 1, 15)>>
            /\ buf = name \o <<"1", "2", "3", ".", "4", "5", ",">>
                 => r = <<(<<"1", "2", "3", ".", "4", "5">>)>>

\* a value of 17 characters has been cut to 15
C12_Witness ==
    /\ NumberTextDone
    /\ text_in.buf = MARK_E \o Rep("1", 17) \o <<",">>
    /\ text_out = <<(<<Rep("1", 15)>>)>>

-----------------------------------------------------------------------------
(* The connection and its timers.                                          *)

\* the number of samples a summary line reports, 0 for no line
Reported(l) == IF l = <<>> THEN 0 ELSE l[1].samples

\* the step taken leaves the connection established
StaysEstablished ==
    conn = "Established" /\ conn' = "Established" /\ vars' # vars

\* C13: on a connection that stays established a fold and a tick are each
\* one whole step: a message adds one to an aggregator's count exactly when
\* it is folded into it, a tick reports each count as it stands and leaves
\* it 0, and no other step changes a count; so each count is the number of
\* values folded since the last summary, none lost and none counted twice.
C13_NoSampleLostOrDoubled ==
    /\ [](conn = "Established" =>
            /\ e_lat_range.samples = Len(e_lat_folded)
            /\ price_range.samples = Len(price_folded))
    /\ [][ StaysEstablished =>
             CASE out'.ev = "RECEIVE" ->
                     /\ e_lat_range'.samples = e_lat_range.samples +
                          (IF out'.marks[1] /\ out'.marks[2] THEN 1 ELSE 0)
                     /\ price_range'.samples = price_range.samples +
                          (IF out'.marks[1] /\ out'.marks[2] /\ out'.marks[3]
                           THEN 1 ELSE 0)
               [] out'.ev = "tick" ->
                     /\ Reported(out'.elat) = e_lat_range.samples
                     /\ Reported(out'.price) = price_range.samples
                     /\ e_lat_range'.samples = 0
                     /\ price_range'.samples = 0
               [] OTHER ->
                     /\ e_lat_range'.samples = e_lat_range.samples
                     /\ price_range'.samples = price_range.samples
         ]_vars

\* a tick has reported two latencies and one price and left both counts 0
C13_Witness ==
    /\ conn = "Established"
    /\ out.ev = "tick"
    /\ Reported(out.elat) = 2
    /\ Reported(out.price) = 1
    /\ e_lat_range.samples = 0
    /\ price_range.samples = 0

\* C14: the tick is cancelled when the established connection closes: in no
\* state is the tick armed while the connection is not established, and no
\* tick runs between a close and the next establishment.
C14_TickCancelledOnClose ==
    /\ [](conn # "Established" => ~sul_hz.armed)
    /\ [][conn # "Established" => out'.ev \notin {"tick", "tick_fault"}]_vars

\* the step taken ran connect_client
Connects == out'.ev \in {"connect", "connect_failed"} /\ vars' # vars

\* C15: the connect event is armed only while the connection is idle, and
\* connect_client runs only then: a connection attempt begins only when no
\* attempt is in flight and no connection is established, so there is never
\* more than one.
C15_ConnectOnlyWhenIdle ==
    /\ [](sul.armed => conn = "Idle")
    /\ [][Connects => conn = "Idle" /\ sul.armed]_vars
    /\ [][conn # "Connecting" /\ conn' = "Connecting" =>
            conn = "Idle" /\ out'.ev = "connect" /\ ~sul'.armed]_vars

\* after two failures an attempt is in flight and no connect event is armed
C15_Witness ==
    /\ conn = "Connecting"
    /\ out.ev = "connect"
    /\ retry_count = 2
    /\ ~sul.armed

Stopping == pc # "loop" \/ ~LoopCond

\* the last step handled a failure and left the loop running
Failed ==
    /\ out.ev \in FailureEvents
    /\ ~Stopping

Establishes == out'.ev = "ESTABLISHED" /\ vars' # vars

\* C18: an establishment leaves both aggregators empty, whatever a connection
\* before it left in them, so that a summary of the established connection
\* counts the values folded since the establishment and no others.
C18_EstablishedStartsEmpty ==
    /\ [][ Establishes =>
             /\ e_lat_range' = Empty
             /\ price_range' = Empty
             /\ e_lat_folded' = <<>> /\ price_folded' = <<>>
         ]_vars
    /\ [][ Tick =>
             /\ Reported(out'.elat) = Len(e_lat_folded)
             /\ Reported(out'.price) = Len(price_folded)
         ]_vars

\* the connection is established for the third time, the tick of the second
\* still armed, and both aggregators are empty
C18_Witness ==
    /\ out.ev = "ESTABLISHED"
    /\ conn = "Established"
    /\ retry_count = 2
    /\ out.hz_replaced
    /\ e_lat_range = Empty
    /\ price_range = Empty

\* the two aggregators
Ranges == {e_lat_range, price_range}

\* C19 as claimed: in every state, from the construction on, an aggregator
\* without samples is in the empty state: lowest the sentinel, highest and
\* sum 0.
C19_EmptyWheneverNoSamples ==
    \A r \in Ranges : r.samples = 0 => r = Empty

\* C19, amended: an aggregator without samples is in the empty state from the
\* first establishment on; from the construction until then it is all zero,
\* lowest included, and once reset it is never all zero again.
C19_EmptyOnceEstablished ==
    /\ [](\A r \in Ranges : r.samples = 0 => r = Empty \/ r = RangeZero)
    /\ [](\A r \in Ranges :
            r = RangeZero =>
                /\ conn # "Established"
                /\ ~sul_hz.armed
                /\ out.ev \notin {"ESTABLISHED", "RECEIVE", "tick", "CLOSED"})
    /\ [][\A r \in Ranges : r = Empty => r' # RangeZero]_vars
    /\ [][Establishes => e_lat_range' = Empty /\ price_range' = Empty]_vars

\* the first establishment has taken both aggregators from all zero to empty
C19_Witness ==
    /\ out.ev = "ESTABLISHED"
    /\ retry_count = 0
    /\ ~out.hz_replaced
    /\ \A r \in Ranges : r.samples = 0 /\ r = Empty /\ r # RangeZero

\* the step taken received a message
Receives == out'.ev = "RECEIVE" /\ vars' # vars

\* C20: a message folds a latency exactly when it has "depthUpdate" and "E":,
\* whatever its price, and folds a price exactly when it has folded a latency
\* and has the price marker; so a price without "E": is not folded, and no
\* state has more prices than latencies.
C20_PriceOnlyWithLatency ==
    /\ [](price_range.samples <= e_lat_range.samples)
    /\ [][ Receives =>
             LET m == out'.marks
                 latency == e_lat_range'.samples = e_lat_range.samples + 1
                 price   == price_range'.samples = price_range.samples + 1
             IN  /\ latency <=> (m[1] /\ m[2])
                 /\ ~latency => e_lat_range' = e_lat_range
                 /\ price <=> (m[1] /\ m[2] /\ m[3])
                 /\ ~price => price_range' = price_range
                 /\ price => latency
                 /\ (m[3] /\ ~m[2]) => price_range' = price_range
         ]_vars

\* a message without a price has folded a second latency next to one price
C20_Witness ==
    /\ out.ev = "RECEIVE"
    /\ out.marks = <<TRUE, TRUE, FALSE>>
    /\ e_lat_range.samples = 2
    /\ price_range.samples = 1
    /\ conn = "Established"

=============================================================================
